---- MODULE Spec2Model ----
(***************************************************************************)
(* const-concat: compile-time concatenation of string constants.           *)
(*                                                                         *)
(* The crate exports the macro const_concat! and the functions transmute,  *)
(* concat_inner and concat (src/src/lib.rs).  A user program enters the    *)
(* crate through one of them:                                              *)
(*   - "const_concat": the macro is expanded arm by arm (each rewriting    *)
(*     step is one action), the generated concat_inner calls are then      *)
(*     type-checked and evaluated innermost first, and the final array is  *)
(*     reinterpreted as a &'static str;                                    *)
(*   - "concat_inner" / "concat": the public functions are called directly *)
(*     with type parameters the caller chooses.                            *)
(*                                                                         *)
(* A str is modelled by the sequence of its UTF-8 bytes; memory is a       *)
(* sequence of units (bytes, or the words of a reference).                 *)
(***************************************************************************)
EXTENDS Integers, Sequences, FiniteSets, TLC

VARIABLES
    entry,      \* the public item the user program uses
    args,       \* the string constants the user program supplies
    trailing,   \* the macro invocation ends with a trailing comma
    inv,        \* the outermost macro invocation still to be expanded
    calls,      \* generated concat_inner calls, outermost first
    copies,     \* textual copies of inv in the expansion so far
    steps,      \* rewriting steps taken
    insts,      \* evaluated concat_inner calls, innermost first
    acc,        \* Out array of the last evaluated call
    result,     \* what the macro invocation finally yields
    call,       \* outcome of a direct call of concat_inner / concat
    left,       \* (a ++ b) ++ c by two chained concat_inner calls
    right       \* a ++ (b ++ c) by two chained concat_inner calls

vars == <<entry, args, trailing, inv, calls, copies, steps, insts, acc,
          result, call, left, right>>

(***************************************************************************)
(* Bounds                                                                  *)
(***************************************************************************)
MaxLen == 1      \* longest enumerated string constant
MaxOps == 3      \* most operands of an enumerated macro invocation
MaxArr == 2      \* largest First / Second array a direct caller names
JunkLen == 2     \* period of the pattern read from undefined memory

Alphabet == {97, 98}
JunkBytes == {0, 255}

Strings == UNION {[1..k -> Alphabet] : k \in 0..MaxLen}
ArgLists == UNION {[1..k -> Strings] : k \in 0..MaxOps}
Junk == [1..JunkLen -> JunkBytes]

\* the constants of the crate's tests
SALUTATION == <<72, 101, 108, 108, 111>>
TARGET == <<119, 111, 114, 108, 100>>
CommaSpace == <<44, 32>>
Bang == <<33>>
TopLevelArgs == <<SALUTATION, CommaSpace, TARGET, Bang>>
FooNAME == <<70, 111, 111>>
BarNAME == <<66, 97, 114>>
AssocArgs == <<<<40>>, FooNAME, CommaSpace, BarNAME, <<41>>>>
HelloWorld ==
    <<72, 101, 108, 108, 111, 44, 32, 119, 111, 114, 108, 100, 33>>

(***************************************************************************)
(* Memory-level helpers                                                    *)
(***************************************************************************)
JunkAt(junk, i) == junk[((i - 1) % JunkLen) + 1]

RoundUp(n, align) == ((n + align - 1) \div align) * align

\* transmute<From, To>: a union of both types is written through `from` and
\* read through `to`.  No size check is made: a smaller To reads a prefix,
\* a larger To reads units the write never initialized.
transmute(from, toSize, junk) ==
    [i \in 1..toSize |-> IF i <= Len(from) THEN from[i] ELSE JunkAt(junk, i)]

\* a &[u8] is two words, the data pointer and the length
SliceRef(s) == <<s, Len(s)>>

\* *(&T): reads size_of::<T>() bytes behind the pointer; bytes past the end of
\* the slice's storage are out of bounds
Deref(ptr, size, junk) ==
    [i \in 1..size |-> IF i <= Len(ptr) THEN ptr[i] ELSE JunkAt(junk, i)]

\* alignment of [u8; N]
AlignU8 == 1

Both_Padded(f, s, junk) ==
    LET off == RoundUp(Len(f), 2)
        size == RoundUp(off + Len(s), 2)
    IN [i \in 1..size |->
          IF i <= Len(f) THEN f[i]
          ELSE IF i > off /\ i <= off + Len(s) THEN s[i - off]
          ELSE JunkAt(junk, i)]

Both_Swapped(f, s, junk) == s \o f

\* #[repr(C)] struct Both<A, B>(A, B): fields in declaration order, the second
\* at the next offset its alignment allows, the size a multiple of the
\* alignment; padding is never initialized.
Both(f, s, junk) ==
    LET off == RoundUp(Len(f), AlignU8)
        size == RoundUp(off + Len(s), AlignU8)
    IN [i \in 1..size |->
          IF i <= Len(f) THEN f[i]
          ELSE IF i > off /\ i <= off + Len(s) THEN s[i - off]
          ELSE JunkAt(junk, i)]

concat_inner_SameSlice(First, Second, Out, a, b, junk) ==
    LET pa == transmute(SliceRef(a), 1, junk)[1]
        arr == Both(Deref(pa, First, junk), Deref(pa, Second, junk), junk)
    IN transmute(arr, Out, junk)

\* concat_inner::<First, Second, Out>(a, b) for First = [u8; First],
\* Second = [u8; Second], Out = [u8; Out]: each slice reference is
\* reinterpreted as a reference to its array type and read through, the two
\* arrays fill a Both, and the Both is reinterpreted as Out.
concat_inner(First, Second, Out, a, b, junk) ==
    LET pa == transmute(SliceRef(a), 1, junk)[1]
        pb == transmute(SliceRef(b), 1, junk)[1]
        arr == Both(Deref(pa, First, junk), Deref(pb, Second, junk), junk)
    IN transmute(arr, Out, junk)

\* the call reads memory it must not read: past the end of a or b, or bytes of
\* Out that Both never wrote
Undefined(First, Second, Out, a, b) ==
    \/ First > Len(a)
    \/ Second > Len(b)
    \/ Out > RoundUp(RoundUp(First, AlignU8) + Second, AlignU8)

\* concat::<C>(a, b) for an impl C of ConstBuffer
concat(C, a, b, junk) == concat_inner(C.First, C.Second, C.Out, a, b, junk)

BytesArm_OutTwiceFirst(a, b) ==
    [First |-> Len(a), Second |-> Len(b), Out |-> Len(a) + Len(a)]

\* the type arguments the @bytes arm writes:
\* [u8; $a.len()], [u8; $b.len()], [u8; $a.len() + $b.len()]
BytesArm(a, b) ==
    [First |-> Len(a), Second |-> Len(b), Out |-> Len(a) + Len(b)]

(***************************************************************************)
(* Expressions and macro invocations                                       *)
(***************************************************************************)
\* An operand expression: the src-th string constant of the invocation with
\* .as_bytes() appended asb times.  Nested stands for the operand
\* &const_concat!(@inner ...) whose invocation is still to be expanded.
Operand(i) == [src |-> i, asb |-> 0]
Nested == [src |-> 0, asb |-> 0]

\* $e.as_bytes()
AsBytes(e) == [src |-> e.src, asb |-> e.asb + 1]

\* the type of an operand expression: a string constant is a &str,
\* str::as_bytes gives a &[u8], and [u8] has no method as_bytes
TypeOf(e) ==
    IF e.asb = 0 THEN "str" ELSE IF e.asb = 1 THEN "bytes" ELSE "error"

\* a call's a and b parameters are &[u8]; the nested operand is a &[u8; N],
\* which coerces to it
WellTyped(c) ==
    /\ TypeOf(c.a) = "bytes"
    /\ c.b = Nested \/ TypeOf(c.b) = "bytes"

\* the bytes an operand of type &[u8] points at
ValueOf(e) == args[e.src]

Invocation(tag, ops, comma, rest) ==
    [tag |-> tag, ops |-> ops, comma |-> comma, rest |-> rest]
NoInvocation(tag) == Invocation(tag, <<>>, FALSE, <<>>)

\* `$a:expr, $b:expr`
TwoExprs(i) == Len(i.ops) = 2 /\ ~i.comma
\* `$a:expr, $($rest:expr),*`: the comma after $a is outside the repetition,
\* so one expression followed by a comma matches with an empty $rest
ExprAndRest(i) ==
    \/ Len(i.ops) >= 2 /\ ~i.comma
    \/ Len(i.ops) = 1 /\ i.comma
\* `$a:expr, $($rest:expr),*,`
ExprAndRestComma(i) == Len(i.ops) >= 2 /\ i.comma

\* the first arm of macro_rules! const_concat, in source order, that the
\* invocation matches; 0 when no rule expects its tokens
Arm(i) ==
    IF i.tag = "bytes" /\ TwoExprs(i) THEN 1
    ELSE IF i.tag = "inner" /\ TwoExprs(i) THEN 2
    ELSE IF i.tag = "inner" /\ ExprAndRest(i) THEN 3
    ELSE IF i.tag = "public" /\ TwoExprs(i) THEN 4
    ELSE IF i.tag = "public" /\ ExprAndRest(i) THEN 5
    ELSE IF i.tag = "public" /\ ExprAndRestComma(i) THEN 6
    ELSE 0

Pending == inv.tag \in {"public", "inner", "bytes"}

None == [kind |-> "none", val |-> <<>>]
Str(bytes) == [kind |-> "str", val |-> bytes]
NoRule == [kind |-> "no_rule", val |-> <<>>]
TypeError == [kind |-> "type_error", val |-> <<>>]

NoCall == [fn |-> "none", First |-> 0, Second |-> 0, Out |-> 0,
           outcome |-> "none", out |-> <<>>]

(***************************************************************************)
(* Initial states                                                          *)
(***************************************************************************)
Init ==
    /\ entry \in {"const_concat", "concat_inner", "concat"}
    /\ IF entry = "const_concat"
         THEN /\ args \in ArgLists \cup {TopLevelArgs, AssocArgs}
              /\ trailing \in BOOLEAN
              /\ trailing => Len(args) >= 1
              /\ inv = Invocation("public",
                                  [i \in 1..Len(args) |-> Operand(i)],
                                  trailing, <<>>)
         ELSE /\ args \in [1..2 -> Strings] \cup
                          (IF entry = "concat_inner"
                             THEN [1..3 -> Strings] ELSE {})
              /\ trailing = FALSE
              /\ inv = NoInvocation("none")
    /\ calls = <<>>
    /\ copies = 1
    /\ steps = 0
    /\ insts = <<>>
    /\ acc = <<>>
    /\ result = None
    /\ call = NoCall
    /\ left = None
    /\ right = None

(***************************************************************************)
(* Macro expansion: one action per arm of macro_rules! const_concat         *)
(***************************************************************************)
ExpansionUnchanged == UNCHANGED <<entry, args, trailing, insts, acc, result,
                                  call, left, right>>

\* (@bytes $a:expr, $b:expr): writes the concat_inner call.  $b appears three
\* times in the transcription, so a nested invocation is copied three times;
\* the copies are token for token the same and expand alike.
ArmBytes ==
    /\ Arm(inv) = 1
    /\ calls' = Append(calls, [a |-> inv.ops[1], b |-> inv.ops[2]])
    /\ IF inv.ops[2] = Nested
         THEN /\ inv' = Invocation("inner", inv.rest, FALSE, <<>>)
              /\ copies' = copies * 3
         ELSE /\ inv' = NoInvocation("expanded")
              /\ copies' = copies
    /\ steps' = steps + 1
    /\ ExpansionUnchanged

\* (@inner $a:expr, $b:expr)
ArmInnerTwo ==
    /\ Arm(inv) = 2
    /\ inv' = Invocation("bytes",
                         <<AsBytes(inv.ops[1]), AsBytes(inv.ops[2])>>,
                         FALSE, <<>>)
    /\ steps' = steps + 1
    /\ UNCHANGED <<calls, copies>>
    /\ ExpansionUnchanged

\* (@inner $a:expr, $($rest:expr),*)
ArmInnerRest ==
    /\ Arm(inv) = 3
    /\ inv' = Invocation("bytes", <<AsBytes(inv.ops[1]), Nested>>,
                         FALSE, Tail(inv.ops))
    /\ steps' = steps + 1
    /\ UNCHANGED <<calls, copies>>
    /\ ExpansionUnchanged

\* ($a:expr, $b:expr)
ArmTwo ==
    /\ Arm(inv) = 4
    /\ inv' = Invocation("inner",
                         <<AsBytes(inv.ops[1]), AsBytes(inv.ops[2])>>,
                         FALSE, <<>>)
    /\ steps' = steps + 1
    /\ UNCHANGED <<calls, copies>>
    /\ ExpansionUnchanged

\* ($a:expr, $($rest:expr),*): transcribes `@inner $a, $($rest),*`, which ends
\* with the comma after $a when $rest is empty
ArmRest ==
    /\ Arm(inv) = 5
    /\ inv' = Invocation("inner", inv.ops, Len(Tail(inv.ops)) = 0, <<>>)
    /\ steps' = steps + 1
    /\ UNCHANGED <<calls, copies>>
    /\ ExpansionUnchanged

ArmTrailing_DropLast ==
    /\ Arm(inv) = 6
    /\ inv' = Invocation("public", SubSeq(inv.ops, 1, Len(inv.ops) - 1),
                         FALSE, <<>>)
    /\ steps' = steps + 1
    /\ UNCHANGED <<calls, copies>>
    /\ ExpansionUnchanged

\* ($a:expr, $($rest:expr),*,): transcribes `const_concat!($a, $($rest),*);`;
\* the `;` after the expression is dropped where an expression is expected
ArmTrailing ==
    /\ Arm(inv) = 6
    /\ inv' = Invocation("public", inv.ops, Len(Tail(inv.ops)) = 0, <<>>)
    /\ steps' = steps + 1
    /\ UNCHANGED <<calls, copies>>
    /\ ExpansionUnchanged

\* no rule expects the invocation's tokens: expansion stops with an error
NoArm ==
    /\ Pending
    /\ Arm(inv) = 0
    /\ inv' = [inv EXCEPT !.tag = "failed"]
    /\ result' = NoRule
    /\ UNCHANGED <<entry, args, trailing, calls, copies, steps, insts, acc,
                   call, left, right>>

(***************************************************************************)
(* Type check and constant evaluation of the expanded expression           *)
(***************************************************************************)
Expanded == inv.tag = "expanded"

\* an operand of some generated call has no type: the invocation is rejected
IllTyped ==
    /\ Expanded
    /\ result = None
    /\ \E k \in 1..Len(calls) : ~WellTyped(calls[k])
    /\ result' = TypeError
    /\ UNCHANGED <<entry, args, trailing, inv, calls, copies, steps, insts,
                   acc, call, left, right>>

\* evaluates the innermost concat_inner call not yet evaluated; its second
\* operand is a string's bytes or the Out array of the call nested in it
EvalCall ==
    /\ Expanded
    /\ \A k \in 1..Len(calls) : WellTyped(calls[k])
    /\ Len(insts) < Len(calls)
    /\ \E junk \in Junk :
         LET c == calls[Len(calls) - Len(insts)]
             a == ValueOf(c.a)
             b == IF c.b = Nested THEN acc ELSE ValueOf(c.b)
             t == BytesArm(a, b)
             out == concat_inner(t.First, t.Second, t.Out, a, b, junk)
         IN /\ insts' = Append(insts, [First |-> t.First, Second |-> t.Second,
                                       Out |-> t.Out, a |-> a, b |-> b,
                                       out |-> out])
            /\ acc' = out
    /\ UNCHANGED <<entry, args, trailing, inv, calls, copies, steps, result,
                   call, left, right>>

\* let bytes: &'static [u8] = &...; transmute::<_, &'static str>(bytes):
\* both words of the slice reference become the words of the &str
StrTransmute ==
    /\ Expanded
    /\ result = None
    /\ Len(calls) > 0
    /\ Len(insts) = Len(calls)
    /\ \E junk \in Junk :
         LET ref == transmute(SliceRef(acc), 2, junk)
         IN result' = Str(SubSeq(ref[1], 1, ref[2]))
    /\ UNCHANGED <<entry, args, trailing, inv, calls, copies, steps, insts,
                   acc, call, left, right>>

(***************************************************************************)
(* Direct calls of the public functions                                    *)
(***************************************************************************)
\* the type parameters a caller may name: byte arrays of any of these sizes
ArraySizes == 0..MaxArr
OutSizes == 0..(2 * MaxArr + 1)

\* what a call of concat_inner::<First, Second, Out>(a, b) comes to.  Nothing
\* compares the sizes with each other or with the slices' lengths.  A call that
\* reads memory it must not read has undefined behaviour: it returns whatever
\* the memory holds, or it is stopped (a fault, or the constant evaluator's
\* error).
Outcome(fn, t, a, b, out, trap) ==
    IF Undefined(t.First, t.Second, t.Out, a, b) /\ trap
      THEN [fn |-> fn, First |-> t.First, Second |-> t.Second, Out |-> t.Out,
            outcome |-> "stopped", out |-> <<>>]
      ELSE [fn |-> fn, First |-> t.First, Second |-> t.Second, Out |-> t.Out,
            outcome |-> "value", out |-> out]

CallConcatInner ==
    /\ entry = "concat_inner"
    /\ Len(args) = 2
    /\ call = NoCall
    /\ \E t \in [First : ArraySizes, Second : ArraySizes, Out : OutSizes],
          junk \in Junk, trap \in BOOLEAN :
         call' = Outcome("concat_inner", t, args[1], args[2],
                         concat_inner(t.First, t.Second, t.Out,
                                      args[1], args[2], junk),
                         trap)
    /\ UNCHANGED <<entry, args, trailing, inv, calls, copies, steps, insts,
                   acc, result, left, right>>

\* concat::<C>: C is any impl of ConstBuffer; the trait relates its three
\* associated types in no way
CallConcat ==
    /\ entry = "concat"
    /\ call = NoCall
    /\ \E C \in [First : ArraySizes, Second : ArraySizes, Out : OutSizes],
          junk \in Junk, trap \in BOOLEAN :
         call' = Outcome("concat", C, args[1], args[2],
                         concat(C, args[1], args[2], junk), trap)
    /\ UNCHANGED <<entry, args, trailing, inv, calls, copies, steps, insts,
                   acc, result, left, right>>

\* one concat_inner call with the type arguments of the @bytes arm
BytesCall(a, b, junk) ==
    LET t == BytesArm(a, b)
    IN concat_inner(t.First, t.Second, t.Out, a, b, junk)

Bytes(v) == [kind |-> "bytes", val |-> v]

\* concat_inner of (concat_inner of a with b) with c
ConcatLeft ==
    /\ entry = "concat_inner"
    /\ Len(args) = 3
    /\ left = None
    /\ \E j1 \in Junk, j2 \in Junk :
         left' = Bytes(BytesCall(BytesCall(args[1], args[2], j1), args[3], j2))
    /\ UNCHANGED <<entry, args, trailing, inv, calls, copies, steps, insts,
                   acc, result, call, right>>

\* concat_inner of a with (concat_inner of b with c)
ConcatRight ==
    /\ entry = "concat_inner"
    /\ Len(args) = 3
    /\ right = None
    /\ \E j1 \in Junk, j2 \in Junk :
         right' = Bytes(BytesCall(args[1], BytesCall(args[2], args[3], j1), j2))
    /\ UNCHANGED <<entry, args, trailing, inv, calls, copies, steps, insts,
                   acc, result, call, left>>

Next ==
    \/ ArmBytes
    \/ ArmInnerTwo
    \/ ArmInnerRest
    \/ ArmTwo
    \/ ArmRest
    \/ ArmTrailing
    \/ NoArm
    \/ IllTyped
    \/ EvalCall
    \/ StrTransmute
    \/ CallConcatInner
    \/ CallConcat
    \/ ConcatLeft
    \/ ConcatRight

Spec == Init /\ [][Next]_vars

(***************************************************************************)
(* Properties                                                              *)
(***************************************************************************)
RECURSIVE Flatten(_)
\* the ordinary concatenation of a list of strings, in order
Flatten(ss) == IF ss = <<>> THEN <<>> ELSE Head(ss) \o Flatten(Tail(ss))

RECURSIVE SumLen(_)
SumLen(ss) == IF ss = <<>> THEN 0 ELSE Len(Head(ss)) + SumLen(Tail(ss))

\* out is a followed by b, byte for byte, and nothing else
IsConcat(out, a, b) ==
    /\ Len(out) = Len(a) + Len(b)
    /\ \A i \in 1..Len(a) : out[i] = a[i]
    /\ \A j \in 1..Len(b) : out[Len(a) + j] = b[j]

Called == call.fn # "none"

\* the direct call names the sizes the @bytes arm would name
Matched ==
    /\ call.First = Len(args[1])
    /\ call.Second = Len(args[2])
    /\ call.Out = call.First + call.Second

Macro == entry = "const_concat"
Finished == result # None

\* C1: every concat_inner call whose type arguments are [u8; L1], [u8; L2],
\* [u8; L1+L2] for slices of lengths L1 and L2 (each call the macro generates,
\* and each direct call that names those sizes) returns exactly L1+L2 bytes:
\* a's bytes in order, then b's bytes in order, with no padding; such a call is
\* never stopped.
C1_ConcatInnerContract ==
    /\ \A k \in 1..Len(insts) :
         IsConcat(insts[k].out, insts[k].a, insts[k].b)
    /\ (Called /\ Matched) =>
         /\ call.outcome = "value"
         /\ IsConcat(call.out, args[1], args[2])

C1_Witness ==
    /\ Called /\ Matched
    /\ call.fn = "concat_inner"
    /\ Len(args[1]) > 0 /\ Len(args[2]) > 0
    /\ call.outcome = "value"

\* C2: const_concat!(a, b) with two string constants yields the string a
\* followed by b.
C2_TwoArgumentConcat ==
    (Macro /\ ~trailing /\ Len(args) = 2 /\ Finished)
        => result = Str(args[1] \o args[2])

\* C3: const_concat!(s1, ..., sN) with N >= 3 comes to an end and yields the
\* string s1 s2 ... sN, whose length is the sum of the operands' lengths;
\* "Hello", ", ", "world", "!" yield "Hello, world!".
C3_VariadicConcat ==
    (Macro /\ ~trailing /\ Len(args) >= 3) =>
        /\ ~Finished => ENABLED Next
        /\ Finished =>
             /\ result = Str(Flatten(args))
             /\ Len(result.val) = SumLen(args)
             /\ args = TopLevelArgs => result.val = HelloWorld

C3_Witness ==
    Macro /\ ~trailing /\ args = TopLevelArgs /\ result.kind = "str"

\* C4: a call of concat_inner or concat whose sizes are mismatched (Out is not
\* First + Second, or a slice's length is not its array's size) never returns
\* an output value.
C4_MismatchRejected == (Called /\ ~Matched) => call.outcome # "value"

\* C5: chaining two concat_inner calls to the left, (a b) c, and to the right,
\* a (b c), each with the type arguments of the @bytes arm, gives the same
\* bytes.
C5_Associativity ==
    (left # None /\ right # None) => left = right

C5_Witness ==
    /\ left # None /\ right # None
    /\ \A i \in 1..3 : Len(args[i]) > 0

\* C6: const_concat!(a) with a single string constant yields a unchanged.
C6_SingleOperandIdentity ==
    (Macro /\ ~trailing /\ Len(args) = 1 /\ Finished) => result = Str(args[1])

\* C7: the invocation with N >= 2 operands and a trailing comma is rewritten,
\* in one step that generates nothing, into the invocation of the same
\* operands without the comma, so both forms yield the same; where the
\* operands do concatenate (N >= 3) both yield s1 ... sN.
C7_TrailingCommaSame ==
    /\ [][(inv.tag = "public" /\ inv.comma /\ Len(inv.ops) >= 2) =>
            /\ inv' = Invocation("public", inv.ops, FALSE, <<>>)
            /\ UNCHANGED <<args, calls, copies, insts, acc, result>>]_vars
    /\ [](Macro /\ trailing /\ Len(args) >= 3 /\ Finished
            => result = Str(Flatten(args)))

C7_Witness ==
    /\ Macro /\ trailing /\ Len(args) >= 3
    /\ steps >= 1
    /\ result.kind = "str"

\* C8: <(Foo, Bar)>::NAME, which is const_concat!("(", "Foo", ", ", "Bar", ")"),
\* equals "Hello, world!".
C8_AssocConstName ==
    (Macro /\ ~trailing /\ args = AssocArgs /\ Finished)
        => result = Str(HelloWorld)

\* C9: every concat_inner call the expansion generates is instantiated with
\* First = [u8; len of its first operand], Second = [u8; len of its second
\* operand] and Out = [u8; First + Second]; the second operand of an outer
\* call is the Out array of the call nested in it, the other operands are the
\* bytes of the invocation's strings.
C9_LengthsSum ==
    \A k \in 1..Len(insts) :
        LET c == calls[Len(calls) - k + 1]
        IN /\ insts[k].First = Len(insts[k].a)
           /\ insts[k].Second = Len(insts[k].b)
           /\ insts[k].Out = insts[k].First + insts[k].Second
           /\ Len(insts[k].out) = insts[k].Out
           /\ insts[k].a = args[c.a.src]
           /\ IF k > 1 THEN c.b = Nested /\ insts[k].b = insts[k - 1].out
                       ELSE insts[k].b = args[c.b.src]

C9_Witness ==
    /\ Len(insts) >= 2
    /\ \A k \in 1..Len(insts) : insts[k].First > 0 /\ insts[k].Second > 0

\* C10: once an invocation has matched a public arm, every @inner and @bytes
\* invocation it leads to matches some arm, the operands left to an @inner
\* invocation are those no generated call has taken yet (one fewer with each
\* call), and expansion ends with N-1 nested concat_inner calls for N operands.
C10_ExpansionTerminates ==
    (Macro /\ steps >= 1) =>
        /\ inv.tag \in {"inner", "bytes"} => Arm(inv) # 0
        /\ inv.tag = "inner" => Len(inv.ops) = Len(args) - Len(calls)
        /\ Expanded => Len(calls) = Len(args) - 1
        /\ inv.tag # "failed"

====
